---------------------------- MODULE Spec2Model ----------------------------
(***************************************************************************)
(* A model of remove_background.py: the single-image processor             *)
(* (remove_background), the batch directory processor                      *)
(* (batch_remove_background) and the command-line dispatch (main), over a  *)
(* small filesystem.                                                       *)
(*                                                                         *)
(* A file name is a sequence of one-character strings, a path a sequence   *)
(* of names (the empty path is the working directory), a byte buffer a     *)
(* sequence of numbers.                                                    *)
(***************************************************************************)
EXTENDS Integers, Sequences, FiniteSets, TLC

VARIABLES
    fs,             \* the filesystem: path -> [kind, data]
    caseInsensitive,\* whether Path.glob matches names case-insensitively (Windows)
    args,           \* the parsed command line
    bpc,            \* position in main / batch_remove_background
    exts_left,      \* extensions the "for ext in image_extensions" loop has not visited
    image_files,    \* batch: the discovered files
    idx,            \* batch: number of files of image_files already handled
    success_count,  \* batch: success_count
    out_dir,        \* batch: output_path (the resolved output directory)
    pc,             \* position in remove_background
    input_path,     \* remove_background's arguments and locals
    output_path,
    input_data,
    output_data,
    ret,            \* what remove_background returned
    stdout,         \* the printed messages
    runs,           \* completed invocations of the program
    fs0,            \* history: the filesystem when the program first started
    fs_before,      \* history: the filesystem when remove_background was last entered
    steps,          \* history: the steps the current remove_background call completed
    outcomes,       \* history: per completed call of this invocation, how it ended
    writes,         \* history: [src, dst] of each call that wrote its output in this invocation
    run_out         \* history: per completed single-image invocation, [ok, data]: the output file's bytes

vars == <<fs, caseInsensitive, args, bpc, exts_left, image_files, idx, success_count,
          out_dir, pc, input_path, output_path, input_data, output_data, ret, stdout,
          runs, fs0, fs_before, steps, outcomes, writes, run_out>>

--------------------------------------------------------------------------
(* Bounds *)

\* at most this many entries in the input directory
MaxFiles == 3
\* at most this many entries in it when names are matched case-insensitively
\* (every image is then discovered twice)
MaxFilesFolded == 1
\* the program is invoked at most this many times on the same arguments
MaxRuns == 2
\* bytes of the input buffers are drawn from 1..MaxByte
MaxByte == 2
\* input buffers of the single-image mode have at most this many bytes
MaxBufLen == 1

\* Python's None where a path may stand: no path has an empty name
None == <<<<>>>>
\* no exception
NoError == "NoError"

--------------------------------------------------------------------------
(* Strings *)

LowerLetters == <<"a","b","c","d","e","f","g","h","i","j","k","l","m",
                  "n","o","p","q","r","s","t","u","v","w","x","y","z">>
UpperLetters == <<"A","B","C","D","E","F","G","H","I","J","K","L","M",
                  "N","O","P","Q","R","S","T","U","V","W","X","Y","Z">>

IndexIn(c, letters) ==
    IF \E k \in 1..Len(letters) : letters[k] = c
    THEN CHOOSE k \in 1..Len(letters) : letters[k] = c
    ELSE 0

\* str.upper()
Upper(s) ==
    [k \in 1..Len(s) |->
        IF IndexIn(s[k], LowerLetters) > 0
        THEN UpperLetters[IndexIn(s[k], LowerLetters)] ELSE s[k]]

\* the case folding of a case-insensitive match
Lower(s) ==
    [k \in 1..Len(s) |->
        IF IndexIn(s[k], UpperLetters) > 0
        THEN LowerLetters[IndexIn(s[k], UpperLetters)] ELSE s[k]]

EndsWith(s, t) ==
    /\ Len(t) <= Len(s)
    /\ SubSeq(s, Len(s) - Len(t) + 1, Len(s)) = t

\* str.rfind('.'), 1-based; 0 when there is no dot
RFindDot(s) ==
    IF \E k \in 1..Len(s) : s[k] = "."
    THEN CHOOSE k \in 1..Len(s) : s[k] = "." /\ \A j \in (k+1)..Len(s) : s[j] # "."
    ELSE 0

--------------------------------------------------------------------------
(* pathlib *)

\* PurePath.name
PathName(p) == IF p = <<>> THEN <<>> ELSE p[Len(p)]

\* PurePath.parent
PathParent(p) == IF p = <<>> THEN <<>> ELSE SubSeq(p, 1, Len(p) - 1)

\* parent / name
Join(dir, name) == Append(dir, name)

\* PurePath.stem: the name up to its last dot, when that dot is neither the
\* first nor the last character
Stem(name) ==
    IF RFindDot(name) > 1 /\ RFindDot(name) < Len(name)
    THEN SubSeq(name, 1, RFindDot(name) - 1)
    ELSE name

NoBgPng == <<"_","n","o","_","b","g",".","p","n","g">>
NoBg == <<"_","n","o","_","b","g">>

NoBgNameKeepsExt(name) == name \o NoBgPng

\* f"{input_file.stem}_no_bg.png"
NoBgName(name) == Stem(name) \o NoBgPng

\* input_file.parent / f"{input_file.stem}_no_bg.png"
DefaultOutputPath(p) == Join(PathParent(p), NoBgName(PathName(p)))

\* input_path.parent / f"{input_path.name}_no_bg"
DefaultOutputDir(p) == Join(PathParent(p), PathName(p) \o NoBg)

--------------------------------------------------------------------------
(* The filesystem *)

Root == <<>>
DirNode == [kind |-> "dir", data |-> <<>>]
FileNode(d) == [kind |-> "file", data |-> d]

Exists(f, p) == p = Root \/ p \in DOMAIN f
IsDir(f, p) == p = Root \/ (p \in DOMAIN f /\ f[p].kind = "dir")
IsFile(f, p) == p \in DOMAIN f /\ f[p].kind = "file"

\* the entries directly inside directory p
Entries(f, p) == {q \in DOMAIN f : q # Root /\ PathParent(q) = p}

Put(f, p, node) == (p :> node) @@ f

\* the error open(p, 'rb') raises, or NoError
OpenRbError(f, p) ==
    IF IsFile(f, p) THEN NoError
    ELSE IF IsDir(f, p) THEN "IsADirectoryError"
    ELSE IF \E k \in 1..(Len(p) - 1) : IsFile(f, SubSeq(p, 1, k)) THEN "NotADirectoryError"
    ELSE "FileNotFoundError"

\* the error open(p, 'wb') raises, or NoError
OpenWbError(f, p) ==
    IF IsDir(f, p) THEN "IsADirectoryError"
    ELSE IF IsDir(f, PathParent(p)) THEN NoError
    ELSE IF \E k \in 1..(Len(p) - 1) : IsFile(f, SubSeq(p, 1, k)) THEN "NotADirectoryError"
    ELSE "FileNotFoundError"

OpenAppend(f, p) == IF IsFile(f, p) THEN f ELSE Put(f, p, FileNode(<<>>))

\* open(p, 'wb') creates the file, or truncates the one there
OpenWb(f, p) == Put(f, p, FileNode(<<>>))

\* the error Path.mkdir(exist_ok=True) raises, or NoError (parents is False)
MkdirError(f, p) ==
    IF IsDir(f, p) THEN NoError
    ELSE IF Exists(f, p) THEN "FileExistsError"
    ELSE IF IsDir(f, PathParent(p)) THEN NoError
    ELSE IF \E k \in 1..(Len(p) - 1) : IsFile(f, SubSeq(p, 1, k)) THEN "NotADirectoryError"
    ELSE "FileNotFoundError"

Mkdir(f, p) == IF IsDir(f, p) THEN f ELSE Put(f, p, DirNode)

ProperPrefixes(d) == {SubSeq(d, 1, k) : k \in 0..(Len(d) - 1)}


Orderings(S) ==
    {s \in [1..Cardinality(S) -> S] : \A a, b \in 1..Cardinality(S) : s[a] = s[b] => a = b}

--------------------------------------------------------------------------
(* Program constants *)

\* the choices of -m/--model
Models == {"u2net", "u2netp", "u2net_human_seg", "silueta", "isnet-general-use"}

ExtJpg == <<".","j","p","g">>
ExtJpeg == <<".","j","p","e","g">>
ExtPng == <<".","p","n","g">>
ExtBmp == <<".","b","m","p">>
ExtTiff == <<".","t","i","f","f">>
ExtWebp == <<".","w","e","b","p">>

image_extensions == {ExtJpg, ExtJpeg, ExtPng, ExtBmp, ExtTiff, ExtWebp}

--------------------------------------------------------------------------
(* The external segmentation function, rembg.remove: deterministic, bytes *)
(* in and bytes out. The stand-in prepends a byte that names the model.   *)

ModelByte(m) ==
    CASE m = "u2net" -> 101
      [] m = "u2netp" -> 102
      [] m = "u2net_human_seg" -> 103
      [] m = "silueta" -> 104
      [] OTHER -> 105

remove(data, model_name) == <<ModelByte(model_name)>> \o data

--------------------------------------------------------------------------
(* Path.glob *)

GlobFold(s, ci) == IF ci THEN Lower(s) ELSE s

\* the entries input_path.glob("*" + suffix) yields: those directly inside dir
\* whose name ends with suffix (compared as the platform compares names);
\* nothing when dir is no directory
Glob(f, dir, suffix, ci) ==
    IF IsDir(f, dir)
    THEN {q \in Entries(f, dir) :
            EndsWith(GlobFold(PathName(q), ci), GlobFold(suffix, ci))}
    ELSE {}

--------------------------------------------------------------------------
(* Initial states *)

D == <<<<"d">>>>
F == <<<<"f">>>>
Missing == <<<<"m">>>>
MissingOut == <<<<"m">>, <<"o">>>>

N_a_jpg == <<"a",".","j","p","g">>
N_a_png == <<"a",".","p","n","g">>
N_b_PNG == <<"b",".","P","N","G">>
N_c_Jpg == <<"c",".","J","p","g">>
N_note_txt == <<"n","o","t","e",".","t","x","t">>
N_a_no_bg_png == <<"a","_","n","o","_","b","g",".","p","n","g">>
N_x_tar_gz == <<"x",".","t","a","r",".","g","z">>
N_dot_jpg == <<".","j","p","g">>
N_noext == <<"n","o","e","x","t">>
N_a_dot == <<"a",".">>
N_o_png == <<"o",".","p","n","g">>

\* the names a batch's input directory may hold
BatchNames == <<N_a_jpg, N_a_png, N_b_PNG, N_c_Jpg, N_note_txt, N_a_no_bg_png>>

\* the names of a single image
SingleNames == {N_a_jpg, N_b_PNG, N_x_tar_gz, N_dot_jpg, N_noext, N_a_dot}

RECURSIVE SeqsUpTo(_, _)
SeqsUpTo(S, n) ==
    IF n = 0 THEN {<<>>}
    ELSE SeqsUpTo(S, n - 1) \cup
         {Append(s, b) : s \in {t \in SeqsUpTo(S, n - 1) : Len(t) = n - 1}, b \in S}

Buffers == SeqsUpTo(1..MaxByte, MaxBufLen)

OldBytes == <<MaxByte, MaxByte, MaxByte>>

BatchContent(k) == <<(k % MaxByte) + 1>>

\* the working directory holds the regular file f and the directory d
BaseFs == (F :> FileNode(<<1>>)) @@ (D :> DirNode)

BatchFs(ks, outDir, outState) ==
    LET files == [q \in {Join(D, BatchNames[k]) : k \in ks} |->
                    FileNode(BatchContent(CHOOSE k \in ks : Join(D, BatchNames[k]) = q))]
        out == IF outState = "absent" \/ outDir \in {D, F, Root} \/ ~IsDir(BaseFs, PathParent(outDir))
               THEN <<>>
               ELSE (outDir :> (IF outState = "dir" THEN DirNode ELSE FileNode(OldBytes)))
    IN  files @@ out @@ BaseFs

SingleFs(inp, present, content, out, pre) ==
    LET file == IF present THEN (inp :> FileNode(content)) ELSE <<>>
        target == IF out = None THEN DefaultOutputPath(inp) ELSE out
        old == IF pre /\ target # inp /\ IsDir(BaseFs, PathParent(target)) /\ ~IsDir(BaseFs, target)
               THEN (target :> FileNode(OldBytes)) ELSE <<>>
    IN  file @@ old @@ BaseFs

Start(f, ci, a) ==
    /\ fs = f
    /\ fs0 = f
    /\ fs_before = f
    /\ caseInsensitive = ci
    /\ args = a
    /\ bpc = "main"
    /\ exts_left = {}
    /\ image_files = <<>>
    /\ idx = 0
    /\ success_count = 0
    /\ out_dir = None
    /\ pc = "idle"
    /\ input_path = None
    /\ output_path = None
    /\ input_data = <<>>
    /\ output_data = <<>>
    /\ ret = None
    /\ stdout = <<>>
    /\ runs = 0
    /\ steps = {}
    /\ outcomes = <<>>
    /\ writes = {}
    /\ run_out = <<>>

InitBatch ==
    \E dir \in {D, F, Missing},
       od \in {None, D, MissingOut},
       outState \in {"absent", "dir", "file"},
       ks \in SUBSET (1..Len(BatchNames)),
       ci \in BOOLEAN,
       m \in {"u2net", "silueta"} :
        /\ Cardinality(ks) <= (IF ci THEN MaxFilesFolded ELSE MaxFiles)
        /\ dir # D => ks = {} /\ ~ci
        /\ od # None => outState = "absent"
        /\ Start(BatchFs(ks, IF od = None THEN DefaultOutputDir(dir) ELSE od, outState), ci,
                 [directory |-> dir, input |-> None, output |-> None,
                  output_dir |-> od, model |-> m])

InitSingle ==
    \E name \in SingleNames,
       present \in BOOLEAN,
       content \in Buffers,
       o \in {"none", "same", "file", "missing", "dir"},
       pre \in BOOLEAN,
       m \in {"u2net", "silueta"} :
        LET inp == Join(D, name)
            out == CASE o = "none" -> None
                     [] o = "same" -> inp
                     [] o = "file" -> Join(D, N_o_png)
                     [] o = "missing" -> MissingOut
                     [] OTHER -> D
        IN  /\ ~present => content = <<>>
            /\ Start(SingleFs(inp, present, content, out, pre), FALSE,
                     [directory |-> None, input |-> inp, output |-> out,
                      output_dir |-> None, model |-> m])

InitHelp ==
    Start(BaseFs, FALSE,
          [directory |-> None, input |-> None, output |-> None,
           output_dir |-> None, model |-> "u2net"])

Init == InitBatch \/ InitSingle \/ InitHelp

--------------------------------------------------------------------------
(* Messages *)

Msg(kind, text, path, a, b) == [kind |-> kind, text |-> text, path |-> path, a |-> a, b |-> b]

Say(m) == stdout' = Append(stdout, m)

--------------------------------------------------------------------------
(* remove_background(input_path, output_path, model) *)

OSErrors == {"FileNotFoundError", "IsADirectoryError", "NotADirectoryError",
             "FileExistsError", "PermissionError", "OSError"}

\* what the calls inside the try block raise: all are subclasses of Exception
Raised == OSErrors \cup {"SegmentationError"}

CaughtOSErrorOnly(e) == e \in OSErrors

\* "except Exception as e" catches e
Caught(e) == e \in Raised

\* the model both callers pass: args.model
ModelArg == args.model

WrittenInput == input_data

\* the buffer output_file.write is given
WrittenData == output_data

\* "if output_path is None": the derived path, else the path given
ResolvedOutput(op, ip) == IF op = None THEN DefaultOutputPath(ip) ELSE op

\* the except clause: print the diagnostic and return None
Except(step, e) ==
    IF Caught(e)
    THEN /\ Say(Msg("error", e, None, 0, 0))
         /\ ret' = None
         /\ pc' = "returned"
         /\ outcomes' = Append(outcomes, step)
         /\ UNCHANGED bpc
    ELSE /\ Say(Msg("traceback", e, None, 0, 0))
         /\ pc' = "idle"
         /\ bpc' = "crashed"
         /\ UNCHANGED <<ret, outcomes>>

batchVars == <<exts_left, image_files, idx, success_count, out_dir>>
envVars == <<caseInsensitive, args, runs, fs0, fs_before, run_out>>

\* with open(input_path, 'rb') as input_file: input_data = input_file.read()
RbRead ==
    /\ pc = "read"
    /\ \/ /\ OpenRbError(fs, input_path) = NoError
          /\ input_data' = fs[input_path].data
          /\ pc' = "remove"
          /\ steps' = steps \cup {"read"}
          /\ UNCHANGED <<ret, outcomes, stdout, bpc>>
       \/ /\ OpenRbError(fs, input_path) # NoError
          /\ Except("read", OpenRbError(fs, input_path))
          /\ UNCHANGED <<input_data, steps>>
       \/ /\ OpenRbError(fs, input_path) = NoError
          /\ Except("read", "PermissionError")
          /\ UNCHANGED <<input_data, steps>>
    /\ UNCHANGED <<fs, input_path, output_path, output_data, writes>>
    /\ UNCHANGED batchVars
    /\ UNCHANGED envVars

\* output_data = remove(input_data, model_name=model)
RbRemove ==
    /\ pc = "remove"
    /\ \/ /\ output_data' = remove(input_data, ModelArg)
          /\ pc' = "open"
          /\ steps' = steps \cup {"remove"}
          /\ UNCHANGED <<ret, outcomes, stdout, bpc>>
       \/ /\ Except("remove", "SegmentationError")
          /\ UNCHANGED <<output_data, steps>>
    /\ UNCHANGED <<fs, input_path, output_path, input_data, writes>>
    /\ UNCHANGED batchVars
    /\ UNCHANGED envVars

\* the derivation of output_path, and open(output_path, 'wb')
RbOpen ==
    /\ pc = "open"
    /\ output_path' = ResolvedOutput(output_path, input_path)
    /\ \/ /\ OpenWbError(fs, output_path') = NoError
          /\ fs' = OpenWb(fs, output_path')
          /\ pc' = "write"
          /\ UNCHANGED <<ret, outcomes, stdout, bpc>>
       \/ /\ OpenWbError(fs, output_path') # NoError
          /\ Except("write", OpenWbError(fs, output_path'))
          /\ UNCHANGED fs
       \/ /\ OpenWbError(fs, output_path') = NoError
          /\ Except("write", "PermissionError")
          /\ UNCHANGED fs
    /\ UNCHANGED <<input_path, input_data, output_data, steps, writes>>
    /\ UNCHANGED batchVars
    /\ UNCHANGED envVars

\* output_file.write(output_data), the close of the file, the three prints
\* and "return output_path"
RbWrite ==
    /\ pc = "write"
    /\ \/ /\ fs' = [fs EXCEPT ![output_path].data = @ \o WrittenData]
          /\ Say(Msg("removed", "", output_path, 0, 0))
          /\ ret' = output_path
          /\ pc' = "returned"
          /\ steps' = steps \cup {"write"}
          /\ outcomes' = Append(outcomes, "ok")
          /\ writes' = writes \cup {[src |-> input_path, dst |-> output_path]}
          /\ UNCHANGED bpc
       \/ \E part \in ProperPrefixes(WrittenData) :
            /\ fs' = [fs EXCEPT ![output_path].data = @ \o part]
            /\ Except("write", "OSError")
            /\ UNCHANGED <<steps, writes>>
    /\ UNCHANGED <<input_path, output_path, input_data, output_data>>
    /\ UNCHANGED batchVars
    /\ UNCHANGED envVars

--------------------------------------------------------------------------
(* main() *)

callVars == <<pc, input_path, output_path, input_data, output_data, ret, steps>>

\* the dispatch on args.directory and args.input
Main ==
    /\ bpc = "main"
    /\ \/ /\ args.directory # None
          /\ bpc' = "exists"
          /\ UNCHANGED <<callVars, stdout, runs, fs_before>>
       \/ /\ args.directory = None
          /\ args.input # None
          /\ bpc' = "single"
          /\ pc' = "read"
          /\ input_path' = args.input
          /\ output_path' = args.output
          /\ fs_before' = fs
          /\ steps' = {}
          /\ UNCHANGED <<input_data, output_data, ret, stdout, runs>>
       \/ /\ args.directory = None
          /\ args.input = None
          /\ Say(Msg("help", "", None, 0, 0))
          /\ bpc' = "done"
          /\ runs' = runs + 1
          /\ UNCHANGED <<callVars, fs_before>>
    /\ UNCHANGED <<fs, caseInsensitive, args, fs0, run_out, outcomes, writes>>
    /\ UNCHANGED batchVars

\* remove_background has returned to main, which ends
SingleReturn ==
    /\ bpc = "single"
    /\ pc = "returned"
    /\ bpc' = "done"
    /\ pc' = "idle"
    /\ runs' = runs + 1
    /\ run_out' = Append(run_out,
                         IF ret = None THEN [ok |-> FALSE, data |-> <<>>]
                         ELSE [ok |-> TRUE, data |-> fs[ret].data])
    /\ UNCHANGED <<fs, caseInsensitive, args, fs0, fs_before, stdout, outcomes, writes,
                   input_path, output_path, input_data, output_data, ret, steps>>
    /\ UNCHANGED batchVars

\* the single-image command is run again on the same arguments
Rerun ==
    /\ bpc = "done"
    /\ args.directory = None
    /\ args.input # None
    /\ runs < MaxRuns
    /\ bpc' = "main"
    /\ pc' = "idle"
    /\ input_path' = None
    /\ output_path' = None
    /\ input_data' = <<>>
    /\ output_data' = <<>>
    /\ ret' = None
    /\ stdout' = <<>>
    /\ steps' = {}
    /\ outcomes' = <<>>
    /\ writes' = {}
    /\ UNCHANGED <<fs, caseInsensitive, args, runs, fs0, fs_before, run_out>>
    /\ UNCHANGED batchVars

--------------------------------------------------------------------------
(* batch_remove_background(input_dir, output_dir, model) *)

\* input_path.exists()
InputDirFound(f, p) == Exists(f, p)

TruthyAlways(r) == TRUE

\* "if remove_background(...)": None is false, a path string is true unless empty
Truthy(r) == r # None /\ r # <<>>

\* output_path / f"{image_file.stem}_no_bg.png"
OutputFile(dir, image_file) == Join(dir, NoBgName(PathName(image_file)))

\* "if not input_path.exists(): print(...); return"
BatchExists ==
    /\ bpc = "exists"
    /\ \/ /\ ~InputDirFound(fs, args.directory)
          /\ Say(Msg("no_input_dir", "", args.directory, 0, 0))
          /\ bpc' = "done"
          /\ runs' = runs + 1
       \/ /\ InputDirFound(fs, args.directory)
          /\ bpc' = "mkdir"
          /\ UNCHANGED <<stdout, runs>>
    /\ UNCHANGED <<fs, caseInsensitive, args, fs0, fs_before, run_out, outcomes, writes>>
    /\ UNCHANGED callVars
    /\ UNCHANGED batchVars

\* the derivation of output_dir and output_path.mkdir(exist_ok=True), whose
\* exception nothing catches
BatchMkdir ==
    /\ bpc = "mkdir"
    /\ out_dir' = IF args.output_dir = None THEN DefaultOutputDir(args.directory)
                  ELSE args.output_dir
    /\ \/ /\ MkdirError(fs, out_dir') = NoError
          /\ fs' = Mkdir(fs, out_dir')
          /\ bpc' = "glob"
          /\ exts_left' = image_extensions
          /\ image_files' = <<>>
          /\ UNCHANGED stdout
       \/ /\ MkdirError(fs, out_dir') # NoError
          /\ Say(Msg("traceback", MkdirError(fs, out_dir'), out_dir', 0, 0))
          /\ bpc' = "crashed"
          /\ UNCHANGED <<fs, exts_left, image_files>>
    /\ UNCHANGED <<caseInsensitive, args, runs, fs0, fs_before, run_out, outcomes, writes,
                   idx, success_count>>
    /\ UNCHANGED callVars

\* one round of "for ext in image_extensions": the set is visited in any
\* order, and each glob lists its matches in any order
BatchGlob ==
    /\ bpc = "glob"
    /\ \E ext \in exts_left :
         \E lo \in Orderings(Glob(fs, args.directory, ext, caseInsensitive)),
            up \in Orderings(Glob(fs, args.directory, Upper(ext), caseInsensitive)) :
            /\ image_files' = image_files \o lo \o up
            /\ exts_left' = exts_left \ {ext}
    /\ UNCHANGED <<fs, caseInsensitive, args, runs, fs0, fs_before, run_out, outcomes, writes,
                   bpc, idx, success_count, out_dir, stdout>>
    /\ UNCHANGED callVars

\* "if not image_files: print(...); return", else the print of the count
BatchFound ==
    /\ bpc = "glob"
    /\ exts_left = {}
    /\ \/ /\ image_files = <<>>
          /\ Say(Msg("no_images", "", args.directory, 0, 0))
          /\ bpc' = "done"
          /\ runs' = runs + 1
          /\ UNCHANGED <<idx, success_count>>
       \/ /\ image_files # <<>>
          /\ Say(Msg("processing", "", None, Len(image_files), 0))
          /\ bpc' = "loop"
          /\ idx' = 0
          /\ success_count' = 0
          /\ UNCHANGED runs
    /\ UNCHANGED <<fs, caseInsensitive, args, fs0, fs_before, run_out, outcomes, writes,
                   exts_left, image_files, out_dir>>
    /\ UNCHANGED callVars

\* the loop body up to the call of remove_background(str(image_file), str(output_file), model)
BatchCall ==
    /\ bpc = "loop"
    /\ idx < Len(image_files)
    /\ Say(Msg("file", "", image_files[idx + 1], idx + 1, Len(image_files)))
    /\ input_path' = image_files[idx + 1]
    /\ output_path' = OutputFile(out_dir, image_files[idx + 1])
    /\ pc' = "read"
    /\ bpc' = "call"
    /\ fs_before' = fs
    /\ steps' = {}
    /\ UNCHANGED <<fs, caseInsensitive, args, runs, fs0, run_out, outcomes, writes,
                   input_data, output_data, ret>>
    /\ UNCHANGED batchVars

\* "if remove_background(...): success_count += 1", and the next iteration
BatchReturn ==
    /\ bpc = "call"
    /\ pc = "returned"
    /\ success_count' = IF Truthy(ret) THEN success_count + 1 ELSE success_count
    /\ idx' = idx + 1
    /\ pc' = "idle"
    /\ bpc' = "loop"
    /\ UNCHANGED <<fs, caseInsensitive, args, runs, fs0, fs_before, run_out, outcomes, writes,
                   stdout, exts_left, image_files, out_dir,
                   input_path, output_path, input_data, output_data, ret, steps>>

\* the summary printed after the loop
BatchSummary ==
    /\ bpc = "loop"
    /\ idx = Len(image_files)
    /\ Say(Msg("summary", "", out_dir, success_count, Len(image_files)))
    /\ bpc' = "done"
    /\ runs' = runs + 1
    /\ UNCHANGED <<fs, caseInsensitive, args, fs0, fs_before, run_out, outcomes, writes>>
    /\ UNCHANGED callVars
    /\ UNCHANGED batchVars

--------------------------------------------------------------------------

Next ==
    \/ Main
    \/ RbRead
    \/ RbRemove
    \/ RbOpen
    \/ RbWrite
    \/ SingleReturn
    \/ Rerun
    \/ BatchExists
    \/ BatchMkdir
    \/ BatchGlob
    \/ BatchFound
    \/ BatchCall
    \/ BatchReturn
    \/ BatchSummary

Spec == Init /\ [][Next]_vars

--------------------------------------------------------------------------
(* Notions the properties are stated with *)

Last(q) == q[Len(q)]

Range(q) == {q[k] : k \in 1..Len(q)}

BatchMode == args.directory # None
SingleMode == args.directory = None /\ args.input # None

\* the extension of a name: from its last dot on, when that dot is neither
\* the first nor the last character
Suffix(name) ==
    IF RFindDot(name) > 1 /\ RFindDot(name) < Len(name)
    THEN SubSeq(name, RFindDot(name), Len(name))
    ELSE <<>>

\* the entries of dir whose extension, case folded, is an image extension
MatchingEntries(f, dir) ==
    {q \in Entries(f, dir) : Lower(Suffix(PathName(q))) \in image_extensions}

\* s is the stem of name
IsStemOf(s, name) ==
    IF \E k \in 2..(Len(name) - 1) : name[k] = "." /\ \A j \in (k+1)..Len(name) : name[j] # "."
    THEN \E k \in 2..(Len(name) - 1) :
            /\ name[k] = "."
            /\ \A j \in (k+1)..Len(name) : name[j] # "."
            /\ s = SubSeq(name, 1, k - 1)
    ELSE s = name

\* the regular files of a filesystem, with their bytes
Files(f) == {<<q, f[q].data>> : q \in {r \in DOMAIN f : f[r].kind = "file"}}

Failed == {k \in 1..Len(outcomes) : outcomes[k] # "ok"}
SegmentationFailed == {k \in 1..Len(outcomes) : outcomes[k] = "remove"}

\* the batch has printed its summary
Summarised == BatchMode /\ bpc = "done" /\ Len(image_files) > 0

\* the discovery loop of the batch has ended
Discovered ==
    /\ BatchMode
    /\ out_dir # None
    /\ \/ bpc = "glob" /\ exts_left = {}
       \/ bpc \in {"loop", "call"}
       \/ bpc = "done"

--------------------------------------------------------------------------
(* C1: when a batch over N discovered files ends, every one of the N files *)
(* was attempted, in order, whatever failed before it, and the summary     *)
(* reports N minus the number of failed files out of N; when only the      *)
(* segmentation function failed, on K files, that is N-K out of N.         *)
C1_BatchSummary ==
    Summarised =>
        /\ Len(outcomes) = Len(image_files)
        /\ \A k \in 1..Len(image_files) :
              \E j \in 1..Len(stdout) :
                 /\ stdout[j].kind = "file"
                 /\ stdout[j].a = k
                 /\ stdout[j].path = image_files[k]
        /\ Last(stdout).kind = "summary"
        /\ Last(stdout).b = Len(image_files)
        /\ Last(stdout).a = Len(image_files) - Cardinality(Failed)
        /\ (Failed = SegmentationFailed =>
               Last(stdout).a = Len(image_files) - Cardinality(SegmentationFailed))

C1_Witness ==
    /\ Summarised
    /\ Len(image_files) = 3
    /\ outcomes = <<"remove", "ok", "remove">>
    /\ Last(stdout).a = 1

(* C2: remove_background never lets a failure out: a call that returns     *)
(* returns a path exactly when its read, its segmentation and its write    *)
(* all succeeded, and otherwise returns None after printing a diagnostic   *)
(* with the failure's description; the only uncaught exception of the      *)
(* program is the one mkdir raises in the batch.                           *)
C2_FailuresAreCaught ==
    /\ pc = "returned" =>
          /\ (ret # None) <=> (steps = {"read", "remove", "write"})
          /\ ret # None => ret = output_path /\ Last(outcomes) = "ok"
          /\ ret = None =>
                /\ Last(stdout).kind = "error"
                /\ Last(stdout).text \in Raised
                /\ Last(outcomes) # "ok"
    /\ bpc = "crashed" =>
          /\ BatchMode
          /\ pc = "idle"
          /\ outcomes = <<>>
          /\ Last(stdout).path = out_dir

C2_Witness ==
    /\ pc = "returned"
    /\ ret = None
    /\ steps = {"read", "remove"}
    /\ Last(stdout).text = "OSError"

(* C3: a call of remove_background that returns None has left the          *)
(* filesystem as it was when the call began.                               *)
C3_FailureWritesNothing ==
    (pc = "returned" /\ ret = None) => fs = fs_before

(* C4: a batch whose input_dir is not a directory changes nothing in the   *)
(* filesystem, never calls remove_background, and ends with the            *)
(* diagnostic of the missing input directory.                              *)
C4_NoInputDirNoChange ==
    (BatchMode /\ ~IsDir(fs0, args.directory)) =>
        /\ fs = fs0
        /\ pc = "idle"
        /\ outcomes = <<>>
        /\ bpc = "done" => Last(stdout).kind = "no_input_dir"

(* C5: a batch over an existing directory with no matching file does not   *)
(* crash, never calls remove_background and creates no file, whatever is   *)
(* at the output location.                                                 *)
C5_NoImagesNoCrash ==
    (BatchMode /\ IsDir(fs0, args.directory) /\ MatchingEntries(fs0, args.directory) = {}) =>
        /\ bpc # "crashed"
        /\ pc = "idle"
        /\ Files(fs) = Files(fs0)
        /\ bpc = "done" => Last(stdout).kind = "no_images"

(* C6: the batch discovers exactly the entries of input_dir whose          *)
(* extension, compared case-insensitively, is an image extension, each     *)
(* exactly once.                                                           *)
C6_DiscoveryExact ==
    Discovered =>
        /\ Range(image_files) = MatchingEntries(fs0, args.directory)
        /\ Len(image_files) = Cardinality(MatchingEntries(fs0, args.directory))

(* C7: after a successful call of remove_background the output file holds  *)
(* exactly the bytes the segmentation function returns for the bytes the   *)
(* input file held when the call began and the model given on the command  *)
(* line, and an input file that is not the output file is unchanged.       *)
C7_PassThrough ==
    (pc = "returned" /\ ret # None) =>
        /\ IsFile(fs, ret)
        /\ IsFile(fs_before, input_path)
        /\ fs[ret].data = remove(fs_before[input_path].data, args.model)
        /\ ret # input_path => fs[input_path] = fs_before[input_path]

C7_Witness ==
    /\ pc = "returned"
    /\ ret # None
    /\ args.model = "silueta"
    /\ fs_before[input_path].data = <<2>>
    /\ IsFile(fs_before, ret)
    /\ fs_before[ret].data = OldBytes

(* C8, as claimed: whenever two consecutive single-image runs on the same  *)
(* arguments both succeed, the second leaves in the output file the bytes  *)
(* the first left there.                                                   *)
C8_RerunIdentical ==
    \A j \in 1..(Len(run_out) - 1) :
        (run_out[j].ok /\ run_out[j + 1].ok) => run_out[j + 1].data = run_out[j].data

(* C8, amended: the same, for the runs whose output path is not the input  *)
(* path.                                                                   *)
C8_RerunIdenticalDistinctPaths ==
    (SingleMode /\ ResolvedOutput(args.output, args.input) # args.input) =>
        \A j \in 1..(Len(run_out) - 1) :
            (run_out[j].ok /\ run_out[j + 1].ok) => run_out[j + 1].data = run_out[j].data

C8_Witness ==
    /\ SingleMode
    /\ args.output = Join(D, N_o_png)
    /\ Len(run_out) = 2
    /\ run_out[1].ok
    /\ run_out[2].ok
    /\ run_out[2].data = remove(<<1>>, "u2net")
    /\ IsFile(fs0, args.output)

(* C9: a successful call with no output path given returns, and has        *)
(* written, the file named <stem>_no_bg.png in the input's parent          *)
(* directory, where stem is the input's name without its extension; a call *)
(* with an output path returns that path.                                  *)
C9_DefaultOutputPath ==
    (SingleMode /\ pc = "returned" /\ ret # None) =>
        /\ IsFile(fs, ret)
        /\ args.output # None => ret = args.output
        /\ args.output = None =>
              /\ PathParent(ret) = PathParent(args.input)
              /\ EndsWith(PathName(ret), NoBgPng)
              /\ IsStemOf(SubSeq(PathName(ret), 1, Len(PathName(ret)) - Len(NoBgPng)),
                          PathName(args.input))

C9_Witness ==
    /\ SingleMode
    /\ pc = "returned"
    /\ args.output = None
    /\ PathName(args.input) = N_x_tar_gz
    /\ ret = Join(D, <<"x",".","t","a","r">> \o NoBgPng)

(* C10: in a batch, two calls for different discovered files never write   *)
(* the same output path, no call writes a discovered file that is still    *)
(* waiting, and, when every file was discovered once, the number of files  *)
(* the batch has written equals the success count of the summary.          *)
C10_OutputsDistinct ==
    BatchMode =>
        /\ \A v, w \in writes : v.src # w.src => v.dst # w.dst
        /\ (pc = "returned" /\ ret # None) =>
              \A k \in (idx + 2)..Len(image_files) : image_files[k] # ret
        /\ (Summarised /\ Cardinality(Range(image_files)) = Len(image_files)) =>
              Cardinality({w.dst : w \in writes}) = success_count

==========================================================================
